---- MODULE Spec2Model ----
(***************************************************************************)
(* Resilient media upload pipeline.                                        *)
(*                                                                         *)
(*   - UploadQueueService   (services/uploadQueue, src/unnamed/part_004)   *)
(*   - NetworkAwareUploader (src/src/services/networkAwareUpload.ts)       *)
(*                                                                         *)
(* The storage backend (firebase/storage uploadBytesResumable,             *)
(* getDownloadURL) and the document store (firebase/firestore addDoc,      *)
(* updateDoc) are the environment: their events are actions of the model.  *)
(***************************************************************************)
EXTENDS Integers, Sequences, FiniteSets, TLC

(***************************************************************************)
(* Bounds of the model.                                                    *)
(***************************************************************************)
\* number of addUpload calls (tasks) the queue model follows
MaxTasks == 2
\* number of processUpload invocations (first attempts and retries)
MaxProcs == 2
\* size, in reported chunks, of a payload handed to the queue
TotalBytes == 1

\* number of uploadFile calls the uploader model follows
MaxSessions == 2
\* last reading of Date.now(), in ms, at which SpecUploader lets the clock
\* advance one ms at a time
MaxClock == 1
\* time, in ms, the event loop is held up when the clock of SpecUploader leaps
LeapMs == 100000
\* number of such leaps
MaxLeaps == 1
\* horizon, in ms, of the timed model SpecWatchdog
MaxTime == 70000
\* largest payload, in blocks of 32 KiB, the timeout is computed for (40 MB)
MaxBlocks == 1280
\* number of listeners that subscribe to the queue
MaxListeners == 2
\* number of them the model of the whole life of the tasks follows
MaxSubscribers == 1

Tasks == 1..MaxTasks
Procs == 1..MaxProcs
NoProc == 0
Sessions == 1..MaxSessions
Listeners == 1..MaxListeners
Subscribers == 1..MaxSubscribers

VARIABLES
  (* ---- UploadQueueService ---- *)
  queue,          \* this.queue: the ids of the tasks in the array, in order
  task,           \* the UploadTask objects, by id (they outlive the array)
  qActiveUploads, \* this.activeUploads: task id -> the uploadTask registered
  addPc,          \* where each addUpload call stands
  proc,           \* the processUpload invocations and their uploadTask
  nextProc,       \* number of processUpload invocations so far
  posts,          \* the 'posts' collection of the document store
  removeTimers,   \* tasks with a pending setTimeout(removeFromQueue, 2000)
  lastSnapshot,   \* the last array handed to the listeners
  transitions,    \* every status change made so far: <<from, to, operation>>
  notified,       \* those of them notifyListeners was called after, before
                  \* the status of the task was changed again
  retryIgnored,   \* the tasks retryUpload was called for and did nothing
  cancelledAt,    \* the record of each task as its first cancelUpload found it
  (* ---- NetworkAwareUploader and its environment ---- *)
  now,            \* Date.now(), ms
  leaps,          \* number of leaps the clock has made
  online,         \* navigator.onLine
  connection,     \* navigator.connection
  activeUploads,  \* this.activeUploads: uploadId -> the AbortController (by call)
  up,             \* the uploadFile calls: their locals and those of performUpload
  cancelAllSeen,  \* the calls that were in flight at a cancelAllUploads()
  spared,         \* the calls in flight that were registered when cancelUpload
                  \* got an unknown id
  (* ---- the timeout computation of uploadFile on its own ---- *)
  calc,           \* its inputs and, once computed, its result
  (* ---- getNetworkAwareErrorMessage on its own ---- *)
  cls,            \* its inputs and, once it ran, its message
  (* ---- UploadQueueService: listeners and calls of notifyListeners ---- *)
  listeners,      \* this.listeners, in the order of their subscription
  stack,          \* the notifyListeners calls in progress, innermost last
  received        \* the array each listener was handed last

qvars == <<queue, task, qActiveUploads, addPc, proc, nextProc, posts,
           removeTimers, lastSnapshot, transitions, notified,
           retryIgnored, cancelledAt>>
uvars == <<now, leaps, online, connection, activeUploads, up, cancelAllSeen,
           spared>>
lvars == <<listeners, stack, received>>
vars == <<qvars, uvars, calc, cls, lvars>>
\* what the actions of the queue, resp. of the uploader, leave alone
QFrame == UNCHANGED <<uvars, calc, cls>>
UFrame == UNCHANGED <<qvars, calc, cls, lvars>>

(***************************************************************************)
(* UploadQueueService                                                      *)
(*                                                                         *)
(* A handler of the queue is followed call by call: notifyListeners calls  *)
(* the listeners one after the other, a listener may call addUpload,       *)
(* retryUpload, cancelUpload, subscribe or the function subscribe returned *)
(* before it returns, and the caller of notifyListeners goes on when the   *)
(* last listener has returned.                                             *)
(***************************************************************************)
NoTask == [status |-> "none", progress |-> 0, error |-> "", mediaUrl |-> ""]
NoPost == [exists |-> FALSE, uploading |-> FALSE, mediaUrl |-> ""]
IdleProc == [task |-> 0, pc |-> "unused", xfer |-> "none", bytes |-> 0]

\* the URL getDownloadURL yields for the object of post t
DownloadURL(t) == "url"

InQueue(t) == \E i \in 1..Len(queue) : queue[i] = t

\* notifyListeners: listener([...this.queue]) -- the array is copied, the
\* task objects in it are shared
Snapshot(q, ts) == [i \in 1..Len(q) |->
                      [id |-> q[i], status |-> ts[q[i]].status,
                       progress |-> ts[q[i]].progress]]

\* queue.splice(index, 1) at the index of t
Without(q, t) == SelectSeq(q, LAMBDA x : x # t)

QInit ==
  /\ queue = << >>
  /\ task = [t \in Tasks |-> NoTask]
  /\ qActiveUploads = [t \in Tasks |-> NoProc]
  /\ addPc = [t \in Tasks |-> "idle"]
  /\ proc = [p \in Procs |-> IdleProc]
  /\ nextProc = 0
  /\ posts = [t \in Tasks |-> NoPost]
  /\ removeTimers = {}
  /\ lastSnapshot = << >>
  /\ transitions = {}
  /\ notified = {}
  /\ retryIgnored = {}
  /\ cancelledAt = [t \in Tasks |-> NoPost]

LInit ==
  /\ listeners = << >>
  /\ stack = << >>
  /\ received = [l \in Listeners |-> << >>]

\* what the caller of notifyListeners does when the call has returned:
\* nothing more, processUpload(task), the uploadWithResume of invocation p,
\* or the setTimeout of the completed invocation p
Return == [k |-> "return", p |-> NoProc]
ThenProcessUpload(p) == [k |-> "processUpload", p |-> p]
ThenUploadWithResume(p) == [k |-> "uploadWithResume", p |-> p]
ThenSetTimeout(p) == [k |-> "setTimeout", p |-> p]

\* this.listeners.forEach(...) begins on the call stack stk
NotifyListeners(stk, then) == Append(stk, [todo |-> listeners, then |-> then])

Top == stack[Len(stack)]
Below == SubSeq(stack, 1, Len(stack) - 1)

\* this.listeners.has(l)
Subscribed(l) == \E i \in 1..Len(listeners) : listeners[i] = l

\* the listeners of a forEach in progress that it will still call: a
\* listener deleted from the Set before its turn is not called
Live(todo) == SelectSeq(todo, LAMBDA l : Subscribed(l))

\* the promise of uploadWithResume was rejected by the error observer and
\* processUpload, which awaits it, has not run its catch block yet
CatchPending(p) ==
  proc[p].pc = "transfer" /\ proc[p].xfer \in {"error", "canceled"}

\* a promise reaction of the queue is in the microtask queue
ReactionsPending == \E p \in Procs : CatchPending(p)

\* the event loop is free to handle a timer or an event of the backend or
\* of the document store: no handler of the queue is on the call stack and
\* no promise reaction is pending
EventLoopIdle == stack = << >> /\ ~ReactionsPending

\* this.listeners.add(listener), called on the call stack stk: a listener
\* added to the Set is called last by every forEach in progress
SubscribeCall(l, stk) ==
  /\ listeners' = Append(listeners, l)
  /\ stack' = [i \in 1..Len(stk) |->
                 [stk[i] EXCEPT !.todo =
                    Append(SelectSeq(stk[i].todo, LAMBDA x : x # l), l)]]

\* the function subscribe returned: this.listeners.delete(listener)
UnsubscribeCall(l, stk) ==
  /\ listeners' = SelectSeq(listeners, LAMBDA x : x # l)
  /\ stack' = stk

\* subscribe(listener), called while no handler of the queue runs
subscribe(l) ==
  /\ stack = << >>
  /\ ~Subscribed(l)
  /\ SubscribeCall(l, << >>)
  /\ UNCHANGED <<qvars, received>>
  /\ QFrame

\* the function subscribe returned for l, called while no handler of the
\* queue runs
unsubscribe(l) ==
  /\ stack = << >>
  /\ Subscribed(l)
  /\ UnsubscribeCall(l, << >>)
  /\ UNCHANGED <<qvars, received>>
  /\ QFrame

\* addUpload is called while no handler of the queue runs: the task id is
\* drawn and the thumbnail and the placeholder post are awaited
addUpload(t) ==
  /\ stack = << >>
  /\ addPc[t] = "idle"
  /\ \A u \in Tasks : u < t => addPc[u] # "idle"
  /\ addPc' = [addPc EXCEPT ![t] = "creatingPost"]
  /\ UNCHANGED <<queue, task, qActiveUploads, proc, nextProc, posts,
                 removeTimers, lastSnapshot, transitions>>
  /\ UNCHANGED <<notified, retryIgnored, cancelledAt>>
  /\ UNCHANGED lvars
  /\ QFrame

\* createOptimisticPost: addDoc stores the placeholder, uploading: true
createOptimisticPost(t) ==
  /\ EventLoopIdle
  /\ addPc[t] = "creatingPost"
  /\ posts' = [posts EXCEPT ![t] = [exists |-> TRUE, uploading |-> TRUE,
                                    mediaUrl |-> "thumbnail"]]
  /\ addPc' = [addPc EXCEPT ![t] = "postCreated"]
  /\ UNCHANGED <<queue, task, qActiveUploads, proc, nextProc, removeTimers,
                 lastSnapshot, transitions>>
  /\ UNCHANGED <<notified, retryIgnored, cancelledAt>>
  /\ UNCHANGED lvars
  /\ QFrame

\* generateThumbnail, getUserProfile or addDoc rejects: addUpload rejects
\* and no task is made
addUploadRejects(t) ==
  /\ EventLoopIdle
  /\ addPc[t] = "creatingPost"
  /\ addPc' = [addPc EXCEPT ![t] = "rejected"]
  /\ UNCHANGED <<queue, task, qActiveUploads, proc, nextProc, posts,
                 removeTimers, lastSnapshot, transitions>>
  /\ UNCHANGED <<notified, retryIgnored, cancelledAt>>
  /\ UNCHANGED lvars
  /\ QFrame

\* an addUpload that goes on without awaiting createOptimisticPost
PostAwaited_NotAwaited(t) == addPc[t] \in {"creatingPost", "postCreated"}

\* const postId = await this.createOptimisticPost(...): addUpload goes on
\* once the placeholder is stored
PostAwaited(t) == addPc[t] = "postCreated"

\* addUpload after its awaits: push the pending task and call
\* notifyListeners; processUpload(task) is called when that has returned
addUploadPush(t) ==
  /\ stack = << >>
  /\ PostAwaited(t)
  /\ nextProc < MaxProcs
  /\ LET p  == nextProc + 1
         ts == [task EXCEPT ![t] = [status |-> "pending", progress |-> 0,
                                    error |-> "", mediaUrl |-> ""]]
     IN /\ addPc' = [addPc EXCEPT ![t] = "returned"]
        /\ queue' = Append(queue, t)
        /\ task' = ts
        /\ nextProc' = p
        /\ proc' = [proc EXCEPT ![p] = [IdleProc EXCEPT !.task = t,
                                                       !.pc = "called"]]
        /\ transitions' = transitions \cup {<<"none", "pending", "addUpload">>}
        /\ notified' = notified \cup {<<"none", "pending", "addUpload">>}
        /\ lastSnapshot' = Snapshot(Append(queue, t), ts)
        /\ stack' = NotifyListeners(<< >>, ThenProcessUpload(p))
  /\ UNCHANGED <<qActiveUploads, posts, removeTimers, retryIgnored,
                 cancelledAt, listeners, received>>
  /\ QFrame

\* processUpload(task) of addUpload: status 'uploading' and notifyListeners
processUploadCalled ==
  /\ stack # << >> /\ Live(Top.todo) = << >> /\ Top.then.k = "processUpload"
  /\ LET p  == Top.then.p
         t  == proc[p].task
         tr == <<task[t].status, "uploading", "processUpload">>
         ts == [task EXCEPT ![t].status = "uploading"]
     IN /\ task' = ts
        /\ transitions' = transitions \cup {tr}
        /\ notified' = notified \cup {tr}
        /\ lastSnapshot' = Snapshot(queue, ts)
        /\ stack' = NotifyListeners(Below, ThenUploadWithResume(p))
  /\ UNCHANGED <<queue, qActiveUploads, addPc, proc, nextProc, posts,
                 removeTimers, retryIgnored, cancelledAt, listeners, received>>
  /\ QFrame

\* uploadWithResume: the uploadTask is created and registered
uploadWithResumeCalled ==
  /\ stack # << >> /\ Live(Top.todo) = << >> /\ Top.then.k = "uploadWithResume"
  /\ LET p == Top.then.p
     IN /\ proc' = [proc EXCEPT ![p].pc = "transfer", ![p].xfer = "running"]
        /\ qActiveUploads' = [qActiveUploads EXCEPT ![proc[p].task] = p]
  /\ stack' = Below
  /\ UNCHANGED <<queue, task, addPc, nextProc, posts, removeTimers,
                 lastSnapshot, transitions, notified, retryIgnored,
                 cancelledAt, listeners, received>>
  /\ QFrame

\* a notifyListeners call that was the last statement of its caller returns
notifyListenersReturns ==
  /\ stack # << >> /\ Live(Top.todo) = << >> /\ Top.then.k = "return"
  /\ stack' = Below
  /\ UNCHANGED <<qvars, listeners, received>>
  /\ QFrame

\* processUpload after the notifyListeners call of the completion:
\* setTimeout(() => this.removeFromQueue(task.id), 2000)
removalScheduled ==
  /\ stack # << >> /\ Live(Top.todo) = << >> /\ Top.then.k = "setTimeout"
  /\ removeTimers' = removeTimers \cup {proc[Top.then.p].task}
  /\ stack' = Below
  /\ UNCHANGED <<queue, task, qActiveUploads, addPc, proc, nextProc, posts,
                 lastSnapshot, transitions, notified, retryIgnored,
                 cancelledAt, listeners, received>>
  /\ QFrame

\* a catch block that marks the task failed and drops the message
ProcessUploadCatch_NoMessage(p, msg) ==
  LET t   == proc[p].task
      ts2 == [task EXCEPT ![t].status = "failed"]
  IN /\ task' = ts2
     /\ transitions' = transitions \cup
                         {<<task[t].status, "failed", "processUpload.catch">>}
     /\ notified' = notified \cup
                      {<<task[t].status, "failed", "processUpload.catch">>}
     /\ lastSnapshot' = Snapshot(queue, ts2)
     /\ stack' = NotifyListeners(<< >>, Return)

\* the catch block of processUpload, up to its notifyListeners call: the
\* task is marked failed, whatever its status and whether or not it is
\* still in the array
ProcessUploadCatch(p, msg) ==
  LET t   == proc[p].task
      ts2 == [task EXCEPT ![t].status = "failed", ![t].error = msg]
  IN /\ task' = ts2
     /\ transitions' = transitions \cup
                         {<<task[t].status, "failed", "processUpload.catch">>}
     /\ notified' = notified \cup
                      {<<task[t].status, "failed", "processUpload.catch">>}
     /\ lastSnapshot' = Snapshot(queue, ts2)
     /\ stack' = NotifyListeners(<< >>, Return)

\* state_changed, next observer: task.progress and a notification
uploadProgress(p) ==
  /\ EventLoopIdle
  /\ proc[p].pc = "transfer" /\ proc[p].xfer = "running"
  /\ \E b \in proc[p].bytes..TotalBytes :
       LET t   == proc[p].task
           ts2 == [task EXCEPT ![t].progress = (b * 100) \div TotalBytes]
       IN /\ proc' = [proc EXCEPT ![p].bytes = b]
          /\ task' = ts2
          /\ lastSnapshot' = Snapshot(queue, ts2)
  /\ stack' = NotifyListeners(<< >>, Return)
  /\ UNCHANGED <<queue, qActiveUploads, addPc, nextProc, posts, removeTimers,
                 transitions>>
  /\ UNCHANGED <<notified, retryIgnored, cancelledAt, listeners, received>>
  /\ QFrame

\* the backend goes silent: the upload stays 'running' and no observer of
\* it is called again, unless the upload is cancelled
transferStalls(p) ==
  /\ EventLoopIdle
  /\ proc[p].pc = "transfer" /\ proc[p].xfer = "running"
  /\ proc' = [proc EXCEPT ![p].xfer = "stalled"]
  /\ UNCHANGED <<queue, task, qActiveUploads, addPc, nextProc, posts,
                 removeTimers, lastSnapshot, transitions>>
  /\ UNCHANGED <<notified, retryIgnored, cancelledAt>>
  /\ UNCHANGED lvars
  /\ QFrame

\* state_changed, error observer, on a backend failure of a running upload:
\* the entry of the task is deleted and the promise is rejected
uploadError(p) ==
  /\ EventLoopIdle
  /\ proc[p].pc = "transfer" /\ proc[p].xfer = "running"
  /\ proc' = [proc EXCEPT ![p].xfer = "error"]
  /\ qActiveUploads' = [qActiveUploads EXCEPT ![proc[p].task] = NoProc]
  /\ UNCHANGED <<queue, task, addPc, nextProc, posts, removeTimers,
                 lastSnapshot, transitions>>
  /\ UNCHANGED <<notified, retryIgnored, cancelledAt>>
  /\ UNCHANGED lvars
  /\ QFrame

\* state_changed, error observer, after uploadTask.cancel() took effect
uploadCanceled(p) ==
  /\ EventLoopIdle
  /\ proc[p].pc = "transfer" /\ proc[p].xfer = "canceling"
  /\ proc' = [proc EXCEPT ![p].xfer = "canceled"]
  /\ qActiveUploads' = [qActiveUploads EXCEPT ![proc[p].task] = NoProc]
  /\ UNCHANGED <<queue, task, addPc, nextProc, posts, removeTimers,
                 lastSnapshot, transitions>>
  /\ UNCHANGED <<notified, retryIgnored, cancelledAt>>
  /\ UNCHANGED lvars
  /\ QFrame

\* the message of the error the backend handed to the error observer
TransferErrorMessage(x) ==
  IF x = "error" THEN "storage/unknown" ELSE "storage/canceled"

\* processUpload resumes from await this.uploadWithResume(...) with the
\* rejection of the error observer: its catch block
processUploadCatches(p) ==
  /\ stack = << >>
  /\ CatchPending(p)
  /\ proc' = [proc EXCEPT ![p].pc = "done"]
  /\ ProcessUploadCatch(p, TransferErrorMessage(proc[p].xfer))
  /\ UNCHANGED <<queue, qActiveUploads, addPc, nextProc, posts, removeTimers>>
  /\ UNCHANGED <<retryIgnored, cancelledAt, listeners, received>>
  /\ QFrame

\* state_changed, complete observer: the entry is deleted and the download
\* URL is asked for.  cancel() is best effort: an upload whose last chunk
\* was already accepted still completes.
uploadComplete(p) ==
  /\ EventLoopIdle
  /\ proc[p].pc = "transfer" /\ proc[p].xfer \in {"running", "canceling"}
  /\ proc' = [proc EXCEPT ![p].xfer = "success", ![p].pc = "getUrl"]
  /\ qActiveUploads' = [qActiveUploads EXCEPT ![proc[p].task] = NoProc]
  /\ UNCHANGED <<queue, task, addPc, nextProc, posts, removeTimers,
                 lastSnapshot, transitions>>
  /\ UNCHANGED <<notified, retryIgnored, cancelledAt>>
  /\ UNCHANGED lvars
  /\ QFrame

\* getDownloadURL resolves: uploadWithResume resolves and processUpload
\* calls updatePostWithMedia
getDownloadURLResolves(p) ==
  /\ EventLoopIdle
  /\ proc[p].pc = "getUrl"
  /\ proc' = [proc EXCEPT ![p].pc = "patch"]
  /\ UNCHANGED <<queue, task, qActiveUploads, addPc, nextProc, posts,
                 removeTimers, lastSnapshot, transitions>>
  /\ UNCHANGED <<notified, retryIgnored, cancelledAt>>
  /\ UNCHANGED lvars
  /\ QFrame

\* getDownloadURL rejects: uploadWithResume rejects
getDownloadURLRejects(p) ==
  /\ EventLoopIdle
  /\ proc[p].pc = "getUrl"
  /\ proc' = [proc EXCEPT ![p].pc = "done"]
  /\ ProcessUploadCatch(p, "getDownloadURL failed")
  /\ UNCHANGED <<queue, qActiveUploads, addPc, nextProc, posts, removeTimers>>
  /\ UNCHANGED <<retryIgnored, cancelledAt, listeners, received>>
  /\ QFrame

\* an updateDoc that stores the final URL and leaves the flag
updatePostWithMedia_KeepsFlag(post, mediaUrl) ==
  [post EXCEPT !.mediaUrl = mediaUrl]

\* updatePostWithMedia: updateDoc stores the final URL and clears the flag
updatePostWithMedia(post, mediaUrl) ==
  [post EXCEPT !.mediaUrl = mediaUrl, !.uploading = FALSE]

\* updateDoc resolves: the task is completed and notifyListeners is called;
\* the removal is scheduled when that has returned
updatePostResolves(p) ==
  /\ EventLoopIdle
  /\ proc[p].pc = "patch"
  /\ LET t   == proc[p].task
         url == DownloadURL(t)
         ts2 == [task EXCEPT ![t].status = "completed", ![t].mediaUrl = url,
                             ![t].progress = 100]
     IN /\ posts' = [posts EXCEPT ![t] = updatePostWithMedia(posts[t], url)]
        /\ task' = ts2
        /\ transitions' = transitions \cup
                            {<<task[t].status, "completed", "processUpload">>}
        /\ notified' = notified \cup
                         {<<task[t].status, "completed", "processUpload">>}
        /\ lastSnapshot' = Snapshot(queue, ts2)
  /\ proc' = [proc EXCEPT ![p].pc = "done"]
  /\ stack' = NotifyListeners(<< >>, ThenSetTimeout(p))
  /\ UNCHANGED <<queue, qActiveUploads, addPc, nextProc, removeTimers>>
  /\ UNCHANGED <<retryIgnored, cancelledAt, listeners, received>>
  /\ QFrame

\* updateDoc rejects
updatePostRejects(p) ==
  /\ EventLoopIdle
  /\ proc[p].pc = "patch"
  /\ proc' = [proc EXCEPT ![p].pc = "done"]
  /\ ProcessUploadCatch(p, "updateDoc failed")
  /\ UNCHANGED <<queue, qActiveUploads, addPc, nextProc, posts, removeTimers>>
  /\ UNCHANGED <<retryIgnored, cancelledAt, listeners, received>>
  /\ QFrame

\* a removal that also takes the failed tasks out of the array
removeFromQueue_DropsFailed(t, stk) ==
  LET kept == SelectSeq(queue, LAMBDA x : x # t /\ task[x].status # "failed")
  IN IF InQueue(t)
       THEN /\ queue' = kept
            /\ lastSnapshot' = Snapshot(kept, task)
            /\ stack' = NotifyListeners(stk, Return)
       ELSE /\ UNCHANGED <<queue, lastSnapshot>>
            /\ stack' = stk

\* removeFromQueue, called on the call stack stk: splice and notifyListeners
\* when the task is in the array
removeFromQueue(t, stk) ==
  IF InQueue(t)
    THEN /\ queue' = Without(queue, t)
         /\ lastSnapshot' = Snapshot(Without(queue, t), task)
         /\ stack' = NotifyListeners(stk, Return)
    ELSE /\ UNCHANGED <<queue, lastSnapshot>>
         /\ stack' = stk

\* the timer set on completion fires
removeTimerFires(t) ==
  /\ EventLoopIdle
  /\ t \in removeTimers
  /\ removeTimers' = removeTimers \ {t}
  /\ removeFromQueue(t, << >>)
  /\ UNCHANGED <<task, qActiveUploads, addPc, proc, nextProc, posts,
                 transitions>>
  /\ UNCHANGED <<notified, retryIgnored, cancelledAt, listeners, received>>
  /\ QFrame

\* retryUpload without its status test
RetryAllowed_NoStatusCheck(t) == InQueue(t)

\* retryUpload refusing completed tasks only
RetryAllowed_NotCompleted(t) == InQueue(t) /\ task[t].status # "completed"

\* retryUpload without its queue.find: any failed task is processed again
RetryAllowed_NoLookup(t) == task[t].status = "failed"

\* the condition under which retryUpload acts
RetryAllowed(t) == InQueue(t) /\ task[t].status = "failed"

\* a retry that leaves the error message of the failed attempt
RetryReset_KeepsError(tk) == [tk EXCEPT !.status = "pending", !.progress = 0]

\* retryUpload: status 'pending', error undefined, progress 0
RetryReset(tk) == [tk EXCEPT !.status = "pending", !.error = "", !.progress = 0]

\* uploadTask.cancel(): true only for a running upload
CancelTransfer(x) == IF x \in {"running", "stalled"} THEN "canceling" ELSE x

\* cancelUpload(taskId), called on the call stack stk, up to the
\* notifyListeners call of removeFromQueue
CancelUploadCall(t, stk) ==
  /\ LET p == qActiveUploads[t]
     IN IF p # NoProc
          THEN /\ proc' = [proc EXCEPT ![p].xfer = CancelTransfer(proc[p].xfer)]
               /\ qActiveUploads' = [qActiveUploads EXCEPT ![t] = NoProc]
          ELSE UNCHANGED <<proc, qActiveUploads>>
  /\ removeFromQueue(t, stk)
  /\ cancelledAt' = IF task[t].status # "none" /\ ~cancelledAt[t].exists
                      THEN [cancelledAt EXCEPT ![t] = posts[t]]
                      ELSE cancelledAt
  /\ UNCHANGED <<task, addPc, nextProc, posts, removeTimers, transitions,
                 notified, retryIgnored>>

\* retryUpload(taskId), called on the call stack stk, up to the
\* notifyListeners call of processUpload; uploadWithResume is called when
\* that has returned
RetryUploadCall(t, stk) ==
  /\ IF RetryAllowed(t)
       THEN LET p  == nextProc + 1
                ts == [task EXCEPT ![t] = [RetryReset(task[t])
                                             EXCEPT !.status = "uploading"]]
            IN /\ nextProc < MaxProcs
               /\ task' = ts
               /\ nextProc' = p
               /\ proc' = [proc EXCEPT ![p] = [IdleProc EXCEPT !.task = t,
                                                              !.pc = "called"]]
               /\ transitions' = transitions \cup
                    {<<task[t].status, "pending", "retryUpload">>,
                     <<"pending", "uploading", "processUpload">>}
               /\ notified' = notified \cup
                    {<<"pending", "uploading", "processUpload">>}
               /\ lastSnapshot' = Snapshot(queue, ts)
               /\ stack' = NotifyListeners(stk, ThenUploadWithResume(p))
               /\ UNCHANGED retryIgnored
       ELSE /\ stack' = stk
            /\ retryIgnored' = IF task[t].status = "none" THEN retryIgnored
                                 ELSE retryIgnored \cup {t}
            /\ UNCHANGED <<task, proc, nextProc, transitions, notified,
                           lastSnapshot>>
  /\ UNCHANGED <<queue, qActiveUploads, addPc, posts, removeTimers,
                 cancelledAt>>

\* the call stack once the listener that is next has been called
Called == Append(Below, [Top EXCEPT !.todo = Tail(Live(Top.todo))])

\* listener([...this.queue]): the next listener is handed the array as it
\* is now
Handed == [received EXCEPT ![Head(Live(Top.todo))] = Snapshot(queue, task)]

\* a listener is called and returns
listenerCalled ==
  /\ stack # << >> /\ Live(Top.todo) # << >>
  /\ received' = Handed
  /\ stack' = Called
  /\ UNCHANGED <<qvars, listeners>>
  /\ QFrame

\* a listener is called and calls cancelUpload
listenerCancelsUpload(t) ==
  /\ stack # << >> /\ Live(Top.todo) # << >>
  /\ task[t].status # "none"
  /\ received' = Handed
  /\ CancelUploadCall(t, Called)
  /\ UNCHANGED listeners
  /\ QFrame

\* a listener is called and calls retryUpload
listenerRetriesUpload(t) ==
  /\ stack # << >> /\ Live(Top.todo) # << >>
  /\ task[t].status # "none"
  /\ received' = Handed
  /\ RetryUploadCall(t, Called)
  /\ UNCHANGED listeners
  /\ QFrame

\* a listener is called and calls addUpload, which runs up to its first
\* await
listenerAddsUpload(t) ==
  /\ stack # << >> /\ Live(Top.todo) # << >>
  /\ addPc[t] = "idle"
  /\ \A u \in Tasks : u < t => addPc[u] # "idle"
  /\ addPc' = [addPc EXCEPT ![t] = "creatingPost"]
  /\ received' = Handed
  /\ stack' = Called
  /\ UNCHANGED <<queue, task, qActiveUploads, proc, nextProc, posts,
                 removeTimers, lastSnapshot, transitions>>
  /\ UNCHANGED <<notified, retryIgnored, cancelledAt, listeners>>
  /\ QFrame

\* a listener is called and subscribes another listener
listenerSubscribes(l) ==
  /\ stack # << >> /\ Live(Top.todo) # << >>
  /\ ~Subscribed(l)
  /\ received' = Handed
  /\ SubscribeCall(l, Called)
  /\ UNCHANGED qvars
  /\ QFrame

\* a listener is called and calls the function subscribe returned for l
listenerUnsubscribes(l) ==
  /\ stack # << >> /\ Live(Top.todo) # << >>
  /\ Subscribed(l)
  /\ received' = Handed
  /\ UnsubscribeCall(l, Called)
  /\ UNCHANGED qvars
  /\ QFrame

\* cancelUpload called while no handler of the queue runs
callerCancelsUpload(t) ==
  /\ stack = << >>
  /\ task[t].status # "none"
  /\ CancelUploadCall(t, << >>)
  /\ UNCHANGED <<listeners, received>>
  /\ QFrame

\* retryUpload called while no handler of the queue runs
callerRetriesUpload(t) ==
  /\ stack = << >>
  /\ task[t].status # "none"
  /\ RetryUploadCall(t, << >>)
  /\ UNCHANGED <<listeners, received>>
  /\ QFrame

\* cancelUpload(taskId), whoever calls it
cancelUpload(t) == callerCancelsUpload(t) \/ listenerCancelsUpload(t)

\* retryUpload(taskId), whoever calls it
retryUpload(t) == callerRetriesUpload(t) \/ listenerRetriesUpload(t)

\* the callbacks the queue has pending for a processUpload invocation: the
\* observers of its uploadTask, the catch block and the continuations of
\* getDownloadURL and updateDoc
ProcessStep(p) ==
  \/ uploadProgress(p)
  \/ uploadError(p)
  \/ uploadCanceled(p)
  \/ processUploadCatches(p)
  \/ uploadComplete(p)
  \/ getDownloadURLResolves(p)
  \/ getDownloadURLRejects(p)
  \/ updatePostResolves(p)
  \/ updatePostRejects(p)

\* the whole life of the tasks, with the listeners of Subscribers
QNext ==
  \/ \E l \in Subscribers : subscribe(l)
  \/ \E l \in Subscribers : unsubscribe(l)
  \/ \E l \in Subscribers : listenerUnsubscribes(l)
  \/ \E t \in Tasks : addUpload(t)
  \/ \E t \in Tasks : createOptimisticPost(t)
  \/ \E t \in Tasks : addUploadRejects(t)
  \/ \E t \in Tasks : addUploadPush(t)
  \/ processUploadCalled
  \/ uploadWithResumeCalled
  \/ notifyListenersReturns
  \/ removalScheduled
  \/ listenerCalled
  \/ \E t \in Tasks : listenerCancelsUpload(t)
  \/ \E t \in Tasks : listenerRetriesUpload(t)
  \/ \E t \in Tasks : listenerAddsUpload(t)
  \/ \E t \in Tasks : callerCancelsUpload(t)
  \/ \E t \in Tasks : callerRetriesUpload(t)
  \/ \E p \in Procs : uploadProgress(p)
  \/ \E p \in Procs : transferStalls(p)
  \/ \E p \in Procs : uploadError(p)
  \/ \E p \in Procs : uploadCanceled(p)
  \/ \E p \in Procs : processUploadCatches(p)
  \/ \E p \in Procs : uploadComplete(p)
  \/ \E p \in Procs : getDownloadURLResolves(p)
  \/ \E p \in Procs : getDownloadURLRejects(p)
  \/ \E p \in Procs : updatePostResolves(p)
  \/ \E p \in Procs : updatePostRejects(p)
  \/ \E t \in Tasks : removeTimerFires(t)

\* the tasks up to their failure and their cancel, with every listener
LNext ==
  \/ \E l \in Listeners : subscribe(l)
  \/ \E l \in Listeners : unsubscribe(l)
  \/ \E l \in Listeners : listenerSubscribes(l)
  \/ \E l \in Listeners : listenerUnsubscribes(l)
  \/ \E t \in Tasks : addUpload(t)
  \/ \E t \in Tasks : createOptimisticPost(t)
  \/ \E t \in Tasks : addUploadPush(t)
  \/ processUploadCalled
  \/ uploadWithResumeCalled
  \/ notifyListenersReturns
  \/ listenerCalled
  \/ \E t \in Tasks : listenerCancelsUpload(t)
  \/ \E t \in Tasks : listenerRetriesUpload(t)
  \/ \E t \in Tasks : listenerAddsUpload(t)
  \/ \E t \in Tasks : callerCancelsUpload(t)
  \/ \E t \in Tasks : callerRetriesUpload(t)
  \/ \E p \in Procs : uploadError(p)
  \/ \E p \in Procs : uploadCanceled(p)
  \/ \E p \in Procs : processUploadCatches(p)

(***************************************************************************)
(* NetworkAwareUploader                                                    *)
(***************************************************************************)
MIN_TIMEOUT == 30000
DEFAULT_TIMEOUT == 120000
MAX_TIMEOUT == 300000
\* per-megabyte budget of a slow and of any other connection, ms
SlowMsPerMB == 60000
FastMsPerMB == 20000
\* the stall thresholds, the lenient start-up period and the sampling
\* interval of the watchdog, ms
SlowStallThreshold == 45000
StallThreshold == 30000
GraceMs == 60000
SampleMs == 2000
\* a payload size is counted in blocks of 32 KiB: file.size / (1024 * 1024)
\* is blocks / 32, and both budgets are whole numbers of ms per block
BlocksPerMB == 32
\* options.timeout left out
NoHint == -1
\* connection.downlink is kept in kbit/s; -1 stands for undefined
NoDownlink == -1
OneMbps == 1000

Max2(a, b) == IF a >= b THEN a ELSE b
Min2(a, b) == IF a <= b THEN a ELSE b

\* isSlowConnection: effectiveType 'slow-2g' or '2g', or a truthy downlink
\* below 1 Mbit/s
isSlowConnection(conn) ==
  \/ conn.effectiveType = "slow-2g"
  \/ conn.effectiveType = "2g"
  \/ (conn.downlink # NoDownlink /\ conn.downlink # 0 /\ conn.downlink < OneMbps)

\* sizeBasedTimeout = fileSizeMB * 60000 or fileSizeMB * 20000
sizeBasedTimeout(blocks, slow) ==
  (blocks * (IF slow THEN SlowMsPerMB ELSE FastMsPerMB)) \div BlocksPerMB

\* the timeout without its ceiling
adaptiveTimeout_NoCeiling(blocks, slow, hint) ==
  Max2(Max2(IF hint = NoHint THEN DEFAULT_TIMEOUT ELSE hint,
            sizeBasedTimeout(blocks, slow)), MIN_TIMEOUT)

\* the timeout with the two per-megabyte budgets exchanged
adaptiveTimeout_BudgetsSwapped(blocks, slow, hint) ==
  Min2(Max2(Max2(IF hint = NoHint THEN DEFAULT_TIMEOUT ELSE hint,
                 sizeBasedTimeout(blocks, ~slow)), MIN_TIMEOUT), MAX_TIMEOUT)

\* the timeout with the ceiling put on the caller's value only
adaptiveTimeout_CeilingOnHint(blocks, slow, hint) ==
  Max2(Max2(Min2(IF hint = NoHint THEN DEFAULT_TIMEOUT ELSE hint, MAX_TIMEOUT),
            sizeBasedTimeout(blocks, slow)), MIN_TIMEOUT)

\* adaptiveTimeout = min(max(requestedTimeout, sizeBasedTimeout, MIN), MAX)
adaptiveTimeout(blocks, slow, hint) ==
  LET requestedTimeout == IF hint = NoHint THEN DEFAULT_TIMEOUT ELSE hint
  IN Min2(Max2(Max2(requestedTimeout, sizeBasedTimeout(blocks, slow)),
               MIN_TIMEOUT), MAX_TIMEOUT)

\* the errors thrown and passed on.  words: which of the substrings the
\* classifier looks for the message contains
Err(code, words) == [code |-> code, words |-> words, appCheck |-> FALSE]
OfflineError == Err("", {"network"})
UnauthError == Err("", {})
UidMismatchError == Err("", {})
CancelledError == Err("", {})
TimeoutError == Err("", {"timeout"})
StalledError == Err("", {"stalled"})
CanceledByBackend == Err("storage/canceled", {})
UrlError == Err("storage/object-not-found", {})
NoError == Err("none", {})
BackendErrors == {Err("storage/unknown", {}), Err("storage/unauthorized", {}),
                  Err("storage/quota-exceeded", {})}

SlowType(conn) == conn.effectiveType = "slow-2g" \/ conn.effectiveType = "2g"

\* getNetworkAwareErrorMessage.  The messages are named by their class.
getNetworkAwareErrorMessage(error, isOnline, conn) ==
  IF ~isOnline THEN "No internet connection"
  ELSE IF "stalled" \in error.words THEN "Upload stalled due to no progress"
  ELSE IF error.code = "storage/canceled" THEN "Upload was canceled"
  ELSE IF error.code = "storage/unauthenticated" THEN "You need to sign in"
  ELSE IF error.code = "storage/unauthorized"
    THEN (IF error.appCheck THEN "Upload blocked by App Check"
                            ELSE "Permission denied by Storage rules")
  ELSE IF error.code = "storage/quota-exceeded" THEN "Storage quota exceeded"
  ELSE IF error.code = "storage/retry-limit-exceeded"
    THEN "Upload failed after multiple retries"
  ELSE IF error.code = "storage/unknown"
    THEN (IF SlowType(conn) THEN "Upload failed due to very slow connection"
                            ELSE "Upload failed due to network issues")
  ELSE IF "timeout" \in error.words
    THEN (IF SlowType(conn) THEN "Upload timeout due to slow connection"
                            ELSE "Upload timeout")
  ELSE IF "network" \in error.words \/ "fetch" \in error.words
    THEN "Network error occurred"
  ELSE IF conn.effectiveType # "undefined" THEN "Upload failed (Connection)"
  ELSE "Upload failed"

\* the class of each message of getNetworkAwareErrorMessage
MessageClass(msg) ==
  IF msg = "No internet connection" THEN "not-online"
  ELSE IF msg \in {"You need to sign in", "Upload blocked by App Check",
                   "Permission denied by Storage rules"}
    THEN "permission-denied"
  ELSE IF msg = "Storage quota exceeded" THEN "quota-exceeded"
  ELSE IF msg = "Upload stalled due to no progress" THEN "stalled"
  ELSE IF msg = "Upload was canceled" THEN "canceled"
  ELSE IF msg = "Upload failed after multiple retries" THEN "retry-limit"
  ELSE IF msg \in {"Upload failed due to very slow connection",
                   "Upload failed due to network issues",
                   "Network error occurred"}
    THEN "generic-network"
  ELSE IF msg \in {"Upload timeout due to slow connection", "Upload timeout"}
    THEN "generic-timeout"
  ELSE "fallback"

Conn4g == [effectiveType |-> "4g", downlink |-> 10000]
Conn2g == [effectiveType |-> "2g", downlink |-> 500]

\* the one destination path of the model, and the upload ids it gives
StoragePath == "posts/uid/file"
UploadId(t) == <<StoragePath, t>>
UploadIds == {UploadId(t) : t \in 0..MaxClock}
\* the payloads and options uploadFile is called with
UploadInputs == {[blocks |-> 32, hint |-> 10000], [blocks |-> 32, hint |-> NoHint]}

NoResult == [success |-> FALSE, url |-> "", error |-> "", cancelled |-> FALSE]
\* the race uploadFile awaits: not settled, or settled by the promise of
\* performUpload or by the timeout while the continuation of uploadFile has
\* not run yet
Unsettled == [k |-> "pending", error |-> NoError]
IdleCall ==
  [pc |-> "idle", id |-> UploadId(0), aborted |-> FALSE, xfer |-> "none",
   url |-> "none", onAbort |-> FALSE, stallTimer |-> FALSE, nextTick |-> 0,
   cancelledByWatchdog |-> FALSE, bytes |-> 0, lastBytes |-> 0, lastTick |-> 0,
   uploadStartTime |-> 0, stallThreshold |-> 0, timeout |-> 0,
   result |-> NoResult, onError |-> FALSE, onComplete |-> FALSE,
   caught |-> NoError, calledOffline |-> FALSE, settled |-> Unsettled]

\* Map.set and Map.delete
MapSet(m, k, v) == [x \in (DOMAIN m) \cup {k} |-> IF x = k THEN v ELSE m[x]]
MapDelete(m, k) == [x \in (DOMAIN m) \ {k} |-> m[x]]
EmptyMap == [x \in {} |-> 0]

UInit ==
  /\ now = 0
  /\ leaps = 0
  /\ online = TRUE
  /\ connection = Conn4g
  /\ activeUploads = EmptyMap
  /\ up = [s \in Sessions |-> IdleCall]
  /\ cancelAllSeen = {}
  /\ spared = {}

InFlight(u) == u.pc \in {"auth", "racing"}

\* the catch block of uploadFile after the entry is deleted
CatchReturn(u, error) ==
  IF u.aborted
    THEN [u EXCEPT !.pc = "returned", !.caught = error,
                   !.settled = Unsettled,
                   !.result = [NoResult EXCEPT !.cancelled = TRUE]]
    ELSE [u EXCEPT !.pc = "returned", !.caught = error, !.onError = TRUE,
                   !.settled = Unsettled,
                   !.result = [NoResult EXCEPT !.error =
                      getNetworkAwareErrorMessage(error, online, connection)]]

\* uploadFile after the race is won by the upload
SuccessReturn(u) ==
  [u EXCEPT !.pc = "returned", !.onComplete = TRUE, !.settled = Unsettled,
            !.result = [NoResult EXCEPT !.success = TRUE, !.url = "url"]]

\* the call s changes to u2; a call that returns deletes its uploadId
Leaves(s, u2) == u2.pc = "returned" /\ up[s].pc # "returned"

\* a return that leaves the entry in the map
DeleteOnReturn_Never(s, u2) == activeUploads

DeleteOnReturn(s, u2) ==
  IF Leaves(s, u2) THEN MapDelete(activeUploads, u2.id) ELSE activeUploads

\* the locals of a call no closure reads any more: those of the watchdog
\* once its interval is cleared, those of the race once the call returned
Collect(u) ==
  LET a == IF u.stallTimer THEN u
           ELSE [u EXCEPT !.nextTick = 0, !.lastTick = 0, !.lastBytes = 0]
  IN IF a.pc = "returned" /\ ~a.stallTimer
       THEN [a EXCEPT !.uploadStartTime = 0, !.timeout = 0, !.stallThreshold = 0,
                      !.bytes = 0]
       ELSE a

Step(s, u2) ==
  /\ up' = [up EXCEPT ![s] = Collect(u2)]
  /\ activeUploads' = DeleteOnReturn(s, u2)
  /\ spared' = IF Leaves(s, u2) THEN spared \ {s} ELSE spared

\* the promise of performUpload, or the timeout, settles the race if
\* uploadFile still waits and nothing settled it before; uploadFile goes on
\* in a later microtask
Rejected(u, error) ==
  IF u.pc = "racing" /\ u.settled = Unsettled
    THEN [u EXCEPT !.settled = [k |-> "rejected", error |-> error]]
    ELSE u
Resolved(u) ==
  IF u.pc = "racing" /\ u.settled = Unsettled
    THEN [u EXCEPT !.settled = [k |-> "resolved", error |-> NoError]]
    ELSE u

\* a continuation of uploadFile is in the microtask queue: no timer and no
\* event of the backend or of the browser is handled before it has run
JobsPending == \E s \in Sessions : up[s].settled # Unsettled

\* await Promise.race(...) goes on: the success path or the catch block
uploadFileResumes(s) ==
  /\ up[s].pc = "racing" /\ up[s].settled # Unsettled
  /\ Step(s, IF up[s].settled.k = "resolved"
               THEN SuccessReturn(up[s])
               ELSE CatchReturn(up[s], up[s].settled.error))
  /\ UNCHANGED <<now, leaps, online, connection, cancelAllSeen>>
  /\ UFrame

\* uploadTask.cancel() of the uploader
TaskCancel(x) == IF x = "running" THEN "canceling" ELSE x

\* controller.abort(): the signal is aborted and the 'abort' listener of
\* performUpload, if it is registered, cancels the upload task
Abort(u) ==
  IF u.aborted THEN u
  ELSE [u EXCEPT !.aborted = TRUE, !.onAbort = FALSE,
                 !.xfer = IF u.onAbort THEN TaskCancel(u.xfer) ELSE u.xfer]

\* a pre-upload network check that lets every call through
PreUploadCheckPasses_Always(isOnline) == TRUE

\* the pre-upload network check: navigator.onLine
PreUploadCheckPasses(isOnline) == isOnline

\* uploadFile(file, storagePath, options) up to its first await
uploadFile(s, in) ==
  /\ up[s].pc = "idle"
  /\ \A r \in Sessions : r < s => up[r].pc # "idle"
  /\ LET u   == [up[s] EXCEPT !.id = UploadId(now), !.calledOffline = ~online,
                   !.timeout = adaptiveTimeout(in.blocks,
                                  isSlowConnection(connection), in.hint)]
         reg == MapSet(activeUploads, u.id, s)
     IN IF ~PreUploadCheckPasses(online)
          THEN /\ up' = [up EXCEPT ![s] = Collect(CatchReturn(u, OfflineError))]
               /\ activeUploads' = MapDelete(reg, u.id)
          ELSE /\ up' = [up EXCEPT ![s] = [u EXCEPT !.pc = "auth"]]
               /\ activeUploads' = reg
  /\ UNCHANGED <<now, leaps, online, connection, cancelAllSeen, spared>>
  /\ UFrame

\* performUpload up to its await: the upload task, the abort listener and
\* the watchdog; then the timer of uploadFile
StartTransfer(u) ==
  [u EXCEPT !.pc = "racing", !.xfer = "running", !.onAbort = TRUE,
            !.stallTimer = TRUE, !.nextTick = now + SampleMs,
            !.lastBytes = 0, !.lastTick = now, !.uploadStartTime = now,
            !.stallThreshold = IF SlowType(connection) THEN SlowStallThreshold
                                                       ELSE StallThreshold]

\* a performUpload that starts the transfer whatever the signal says
AbortedBeforeStart_NotChecked(u) == FALSE

\* performUpload: if (signal.aborted) throw new Error('Upload cancelled')
AbortedBeforeStart(u) == u.aborted

\* the import of the auth module resolves: user and path checks, performUpload
authResolves(s, user) ==
  /\ up[s].pc = "auth"
  /\ LET u == up[s]
     IN IF user = "none" THEN Step(s, CatchReturn(u, UnauthError))
        ELSE IF user = "other" THEN Step(s, CatchReturn(u, UidMismatchError))
        ELSE IF AbortedBeforeStart(u)
          THEN Step(s, CatchReturn(u, CancelledError))
        ELSE Step(s, StartTransfer(u))
  /\ UNCHANGED <<now, leaps, online, connection, cancelAllSeen>>
  /\ UFrame

\* state_changed, next observer.  The report may repeat the byte count.
taskProgress(s) ==
  /\ ~JobsPending
  /\ up[s].xfer = "running"
  /\ \E b \in up[s].bytes..TotalBytes :
       Step(s, [up[s] EXCEPT !.bytes = b, !.lastBytes = b, !.lastTick = now])
  /\ UNCHANGED <<now, leaps, online, connection, cancelAllSeen>>
  /\ UFrame

\* state_changed, error observer, backend failure
taskError(s, error) ==
  /\ ~JobsPending
  /\ up[s].xfer = "running"
  /\ Step(s, Rejected([up[s] EXCEPT !.xfer = "error", !.stallTimer = FALSE],
                      error))
  /\ UNCHANGED <<now, leaps, online, connection, cancelAllSeen>>
  /\ UFrame

\* the error the error observer rejects with after a cancellation
CanceledRejection(u) ==
  IF u.cancelledByWatchdog THEN StalledError ELSE CanceledByBackend

\* state_changed, error observer, storage/canceled
taskCanceled(s) ==
  /\ ~JobsPending
  /\ up[s].xfer = "canceling"
  /\ Step(s, Rejected([up[s] EXCEPT !.xfer = "canceled", !.stallTimer = FALSE],
                      CanceledRejection(up[s])))
  /\ UNCHANGED <<now, leaps, online, connection, cancelAllSeen>>
  /\ UFrame

\* state_changed, complete observer: the watchdog stops, the URL is asked
\* for.  cancel() is best effort, a cancelling task may still succeed.
taskComplete(s) ==
  /\ ~JobsPending
  /\ up[s].xfer \in {"running", "canceling"}
  /\ Step(s, [up[s] EXCEPT !.xfer = "success", !.stallTimer = FALSE,
                           !.url = "pending"])
  /\ UNCHANGED <<now, leaps, online, connection, cancelAllSeen>>
  /\ UFrame

\* getDownloadURL resolves: performUpload removes its abort listener and
\* returns the URL
urlResolves(s) ==
  /\ ~JobsPending
  /\ up[s].url = "pending"
  /\ Step(s, Resolved([up[s] EXCEPT !.url = "resolved", !.onAbort = FALSE]))
  /\ UNCHANGED <<now, leaps, online, connection, cancelAllSeen>>
  /\ UFrame

\* getDownloadURL rejects
urlRejects(s) ==
  /\ ~JobsPending
  /\ up[s].url = "pending"
  /\ Step(s, Rejected([up[s] EXCEPT !.url = "rejected"], UrlError))
  /\ UNCHANGED <<now, leaps, online, connection, cancelAllSeen>>
  /\ UFrame

\* the setTimeout of uploadFile fires while uploadFile waits (later it
\* rejects a promise nobody waits for)
timeoutFires(s) ==
  /\ ~JobsPending
  /\ up[s].pc = "racing"
  /\ now >= up[s].uploadStartTime + up[s].timeout
  /\ Step(s, Rejected(up[s], TimeoutError))
  /\ UNCHANGED <<now, leaps, online, connection, cancelAllSeen>>
  /\ UFrame

\* currentThreshold of the watchdog
currentThreshold(u, t) ==
  IF t - u.uploadStartTime < GraceMs THEN u.stallThreshold * 2
                                     ELSE u.stallThreshold

\* the callback of the stallTimer interval
stallTimerTick(s) ==
  /\ ~JobsPending
  /\ up[s].stallTimer
  /\ now >= up[s].nextTick
  /\ LET u == [up[s] EXCEPT !.nextTick = now + SampleMs]
     IN IF u.bytes > u.lastBytes
          THEN Step(s, [u EXCEPT !.lastBytes = u.bytes, !.lastTick = now])
          ELSE IF now - u.lastTick > currentThreshold(u, now)
            THEN Step(s, [u EXCEPT !.cancelledByWatchdog = TRUE,
                                   !.xfer = TaskCancel(u.xfer)])
            ELSE Step(s, u)
  /\ UNCHANGED <<now, leaps, online, connection, cancelAllSeen>>
  /\ UFrame

\* the calls that own an entry of the active-session map
Owners == {activeUploads[id] : id \in DOMAIN activeUploads}

\* a lookup that yields every registered controller, whatever the id
ControllerOf_AnyActive(id) == Owners

\* activeUploads.get(uploadId): the call whose controller is registered
\* under the id, if there is one
ControllerOf(id) ==
  IF id \in DOMAIN activeUploads THEN {activeUploads[id]} ELSE {}

\* cancelUpload(uploadId) of the uploader
uploaderCancelUpload(id) ==
  /\ LET found == ControllerOf(id)
     IN IF found # {}
          THEN /\ up' = [s \in Sessions |->
                          IF s \in found THEN Abort(up[s]) ELSE up[s]]
               /\ activeUploads' = MapDelete(activeUploads, id)
               /\ UNCHANGED spared
          ELSE /\ spared' = spared \cup Owners
               /\ UNCHANGED <<up, activeUploads>>
  /\ UNCHANGED <<now, leaps, online, connection, cancelAllSeen>>
  /\ UFrame

\* cancelAllUploads()
cancelAllUploads ==
  /\ up' = [s \in Sessions |->
              IF \E id \in DOMAIN activeUploads : activeUploads[id] = s
                THEN Abort(up[s]) ELSE up[s]]
  /\ activeUploads' = EmptyMap
  /\ cancelAllSeen' = cancelAllSeen \cup {s \in Sessions : InFlight(up[s])}
  /\ UNCHANGED <<now, leaps, online, connection, spared>>
  /\ UFrame

\* getActiveUploadsCount()
getActiveUploadsCount == Cardinality(DOMAIN activeUploads)

\* navigator.onLine changes
connectivityChanges ==
  /\ ~JobsPending
  /\ online' = ~online
  /\ UNCHANGED <<now, leaps, connection, activeUploads, up, cancelAllSeen, spared>>
  /\ UFrame

\* navigator.connection changes
connectionChanges ==
  /\ ~JobsPending
  /\ connection' = IF connection = Conn4g THEN Conn2g ELSE Conn4g
  /\ UNCHANGED <<now, leaps, online, activeUploads, up, cancelAllSeen, spared>>
  /\ UFrame

\* a millisecond passes
clockTick ==
  /\ ~JobsPending
  /\ now < MaxClock
  /\ now' = now + 1
  /\ UNCHANGED <<leaps, online, connection, activeUploads, up, cancelAllSeen, spared>>
  /\ UFrame

\* the event loop is held up: timers that came due fire late
clockLeap ==
  /\ ~JobsPending
  /\ leaps < MaxLeaps
  /\ leaps' = leaps + 1
  /\ now' = now + LeapMs
  /\ UNCHANGED <<online, connection, activeUploads, up, cancelAllSeen, spared>>
  /\ UFrame

\* time passes by one sampling interval while a transfer or a watchdog is
\* at work, no due timer being left behind
timePasses ==
  /\ ~JobsPending
  /\ now < MaxTime
  /\ \E s \in Sessions : up[s].pc = "racing" \/ up[s].stallTimer
  /\ \A s \in Sessions :
       /\ up[s].pc # "auth"
       /\ up[s].stallTimer => now < up[s].nextTick
       /\ up[s].pc = "racing" => now < up[s].uploadStartTime + up[s].timeout
  /\ now' = now + SampleMs
  /\ UNCHANGED <<leaps, online, connection, activeUploads, up, cancelAllSeen, spared>>
  /\ UFrame

\* the uploader with any number of concurrent calls; the clock gives the
\* upload ids, timers fire when due or late
UNext ==
  \/ \E s \in Sessions : uploadFile(s, [blocks |-> 32, hint |-> 10000])
  \/ \E s \in Sessions : \E user \in {"none", "other", "owner"} : authResolves(s, user)
  \/ \E s \in Sessions : taskProgress(s)
  \/ \E s \in Sessions : \E e \in BackendErrors : taskError(s, e)
  \/ \E s \in Sessions : taskCanceled(s)
  \/ \E s \in Sessions : taskComplete(s)
  \/ \E s \in Sessions : urlResolves(s)
  \/ \E s \in Sessions : urlRejects(s)
  \/ \E s \in Sessions : timeoutFires(s)
  \/ \E s \in Sessions : uploadFileResumes(s)
  \/ \E s \in Sessions : stallTimerTick(s)
  \/ \E id \in UploadIds : uploaderCancelUpload(id)
  \/ cancelAllUploads
  \/ connectivityChanges
  \/ clockTick
  \/ clockLeap

\* one call followed in real time: the timers fire exactly when due
WNext ==
  \/ \E in \in UploadInputs : now = 0 /\ uploadFile(1, in)
  \/ authResolves(1, "owner")
  \/ taskProgress(1)
  \/ \E e \in BackendErrors : taskError(1, e)
  \/ taskCanceled(1)
  \/ taskComplete(1)
  \/ urlResolves(1)
  \/ urlRejects(1)
  \/ timeoutFires(1)
  \/ uploadFileResumes(1)
  \/ stallTimerTick(1)
  \/ uploaderCancelUpload(UploadId(0))
  \/ cancelAllUploads
  \/ connectivityChanges
  \/ connectionChanges
  \/ timePasses

\* the connections and the caller hints the timeout is computed for
Connections ==
  {Conn4g, Conn2g, [effectiveType |-> "slow-2g", downlink |-> 100],
   [effectiveType |-> "3g", downlink |-> 500],
   [effectiveType |-> "3g", downlink |-> 0],
   [effectiveType |-> "undefined", downlink |-> NoDownlink]}
Hints == {NoHint, 0, 10000, 30000, 45000, 120000, 300000, 400000, 600000}

NoCalc == [blocks |-> 0, conn |-> Conn4g, hint |-> NoHint, done |-> FALSE,
           out |-> 0]

\* lines 50-62 of uploadFile on the inputs drawn
computeTimeout ==
  /\ ~calc.done
  /\ calc' = [calc EXCEPT !.done = TRUE,
                          !.out = adaptiveTimeout(calc.blocks,
                                     isSlowConnection(calc.conn), calc.hint)]
  /\ UNCHANGED <<qvars, uvars, cls, lvars>>

TInit ==
  \E b \in 0..MaxBlocks : \E c \in Connections : \E h \in Hints :
    calc = [NoCalc EXCEPT !.blocks = b, !.conn = c, !.hint = h]

\* the error objects, the connectivity and the connections the classifier
\* is called with
ErrorCodes ==
  {"", "storage/canceled", "storage/unauthenticated", "storage/unauthorized",
   "storage/quota-exceeded", "storage/retry-limit-exceeded", "storage/unknown",
   "storage/object-not-found"}
ErrorWords == {"stalled", "timeout", "network", "fetch"}
ClassifierConnections ==
  {Conn4g, Conn2g, [effectiveType |-> "undefined", downlink |-> NoDownlink]}

NoCls == [error |-> NoError, online |-> TRUE, conn |-> Conn4g, done |-> FALSE,
          out |-> ""]

\* getNetworkAwareErrorMessage(error) with navigator.onLine and
\* navigator.connection as drawn
classify ==
  /\ ~cls.done
  /\ cls' = [cls EXCEPT !.done = TRUE,
                        !.out = getNetworkAwareErrorMessage(cls.error,
                                   cls.online, cls.conn)]
  /\ UNCHANGED <<qvars, uvars, calc, lvars>>

CInit ==
  \E c \in ErrorCodes : \E w \in SUBSET ErrorWords : \E a, o \in BOOLEAN :
    \E k \in ClassifierConnections :
      cls = [NoCls EXCEPT !.error = [code |-> c, words |-> w, appCheck |-> a],
                          !.online = o, !.conn = k]

Init == QInit /\ UInit /\ calc = NoCalc /\ cls = NoCls /\ LInit
TimeoutInit == QInit /\ UInit /\ TInit /\ cls = NoCls /\ LInit
ClassifyInit == QInit /\ UInit /\ calc = NoCalc /\ CInit /\ LInit

SpecQueue == Init /\ [][QNext]_vars
SpecUploader == Init /\ [][UNext]_vars
SpecWatchdog == Init /\ [][WNext]_vars
SpecTimeout == TimeoutInit /\ [][computeTimeout]_vars
SpecClassify == ClassifyInit /\ [][classify]_vars
SpecListeners == Init /\ [][LNext]_vars

(***************************************************************************)
(* Claims about the queue                                                  *)
(***************************************************************************)
\* the status changes the life cycle allows
AllowedTransitions ==
  { <<"pending", "uploading", "processUpload">>,
    <<"uploading", "completed", "processUpload">>,
    <<"uploading", "failed", "processUpload.catch">>,
    <<"failed", "pending", "retryUpload">> }

\* C1: every change of a task's status is pending->uploading,
\* uploading->completed, uploading->failed or failed->pending, and
\* failed->pending is made by retryUpload only (creation as pending aside).
C1_StatusTransitions ==
  \A tr \in transitions :
    (tr[1] # tr[2] /\ tr[1] # "none") => tr \in AllowedTransitions

\* a task failed, was retried and completed: every kind of transition has
\* happened
C1_Witness ==
  /\ AllowedTransitions \subseteq transitions
  /\ \E t \in Tasks : task[t].status = "completed" /\ ~posts[t].uploading

\* the transfers of task t the backend is still running
RunningTransfers(t) ==
  {p \in Procs : proc[p].task = t
                  /\ proc[p].xfer \in {"running", "stalled", "canceling"}}

\* C2: at every reachable state each task has at most one active backend
\* transfer, and the registered upload of a task is a transfer of that task.
C2_OneTransferPerTask ==
  \A t \in Tasks :
    /\ Cardinality(RunningTransfers(t)) <= 1
    /\ qActiveUploads[t] # NoProc => proc[qActiveUploads[t]].task = t

\* a retried task is running its second transfer, the first one being over
C2_Witness ==
  \E t \in Tasks : \E p1, p2 \in Procs :
    /\ p1 # p2 /\ proc[p1].task = t /\ proc[p2].task = t
    /\ proc[p1].xfer = "error" /\ proc[p2].xfer = "running"
    /\ qActiveUploads[t] = p2
(***************************************************************************)
(* Claims about the timeout computation                                    *)
(***************************************************************************)
\* C7: for every payload size, connection and caller hint the timeout lies
\* in [MIN_TIMEOUT, MAX_TIMEOUT], and a hint above the ceiling gives exactly
\* the ceiling.
C7_TimeoutWithinBounds ==
  calc.done =>
    /\ MIN_TIMEOUT <= calc.out /\ calc.out <= MAX_TIMEOUT
    /\ calc.hint > MAX_TIMEOUT => calc.out = MAX_TIMEOUT

\* the ten-minute hint of uploadReelVideo is cut to the ceiling, and a small
\* payload with a small hint gets the floor
C7_Witness ==
  /\ calc.done /\ calc.hint = 600000 /\ calc.out = MAX_TIMEOUT
  /\ adaptiveTimeout(1, FALSE, 0) = MIN_TIMEOUT

\* C8: with the hint fixed, the timeout does not decrease when the payload
\* grows on the same connection class, and on a slow connection it is at
\* least the timeout of a non-slow connection for the same payload.
C8_TimeoutMonotone ==
  calc.done =>
    LET slow == isSlowConnection(calc.conn)
    IN /\ \A b \in 0..calc.blocks :
            adaptiveTimeout(b, slow, calc.hint) <= calc.out
       /\ slow => calc.out >= adaptiveTimeout(calc.blocks, FALSE, calc.hint)
       /\ ~slow => calc.out <= adaptiveTimeout(calc.blocks, TRUE, calc.hint)

\* 2 MB on a link that is slow by its downlink alone: the size-based value,
\* between floor and ceiling, above that of a fast link and of 1 MB
C8_Witness ==
  /\ calc.done /\ calc.blocks = 64 /\ calc.hint = 0
  /\ calc.conn = [effectiveType |-> "3g", downlink |-> 500]
  /\ calc.out = 120000
  /\ adaptiveTimeout(64, FALSE, 0) = 40000
  /\ adaptiveTimeout(32, TRUE, 0) = 60000

\* C21: for a payload of 2 MB on a connection that is not slow, with no
\* options.timeout, the timeout uploadFile computes is the floor MIN_TIMEOUT.
C21_SmallFastGetsFloor ==
  (calc.done /\ calc.blocks = 2 * BlocksPerMB /\ calc.hint = NoHint
     /\ ~isSlowConnection(calc.conn))
    => calc.out = MIN_TIMEOUT

\* C22 as stated: for a payload of 40 MB on a slow connection, with no
\* options.timeout, the timeout is the size-based estimate of 40 times the
\* slow per-megabyte budget.
C22_LargeSlowGetsSizeEstimate ==
  (calc.done /\ calc.blocks = 40 * BlocksPerMB /\ calc.hint = NoHint
     /\ isSlowConnection(calc.conn))
    => /\ calc.out = 40 * SlowMsPerMB
       /\ calc.out > MIN_TIMEOUT

\* C22, amended: for that call the size-based estimate (40 times the slow
\* per-megabyte budget) is above the ceiling, and the timeout is the ceiling
\* MAX_TIMEOUT, which is larger than the floor; the size-based estimate is
\* the timeout whenever it lies between the caller's or default value and
\* the ceiling.
C22_LargeSlowGetsCeiling ==
  calc.done =>
    LET slow == isSlowConnection(calc.conn)
        size == sizeBasedTimeout(calc.blocks, slow)
        req  == IF calc.hint = NoHint THEN DEFAULT_TIMEOUT ELSE calc.hint
    IN /\ (calc.blocks = 40 * BlocksPerMB /\ calc.hint = NoHint /\ slow)
            => /\ size = 40 * SlowMsPerMB /\ size > MAX_TIMEOUT
               /\ calc.out = MAX_TIMEOUT /\ calc.out > MIN_TIMEOUT
       /\ (size >= req /\ size >= MIN_TIMEOUT /\ size <= MAX_TIMEOUT)
            => calc.out = size
       /\ size > MAX_TIMEOUT => calc.out = MAX_TIMEOUT

\* the timeout of 40 MB on a 2g connection without options.timeout has been
\* computed and is the ceiling; 4 MB on the same connection gets its
\* size-based estimate of 240 s
C22_Witness ==
  /\ calc.done /\ calc.blocks = 40 * BlocksPerMB /\ calc.hint = NoHint
  /\ calc.conn = Conn2g /\ calc.out = MAX_TIMEOUT
  /\ adaptiveTimeout(4 * BlocksPerMB, TRUE, NoHint) = 4 * SlowMsPerMB
(***************************************************************************)
(* Claims about the uploader                                               *)
(***************************************************************************)
CancelledResult == [NoResult EXCEPT !.cancelled = TRUE]

\* C3: after cancelAllUploads() the count is 0 and every uploadFile call
\* that was in flight at that moment resolves with cancelled = true.  The
\* count is 0 by activeUploads.clear(); this is the statement on the results.
C3_CancelAllCancelsEveryCall ==
  \A s \in cancelAllSeen :
    up[s].pc = "returned" => up[s].result = CancelledResult

\* C4: a call that has returned, however it ended, owns no entry of the
\* active-session map: every entry belongs to a call in flight, so the count
\* is 0 whenever no upload is in flight.
C4_ReturnedCallsNotCounted ==
  /\ \A s \in Owners : InFlight(up[s])
  /\ getActiveUploadsCount <= Cardinality({s \in Sessions : InFlight(up[s])})
  /\ (\A s \in Sessions : ~InFlight(up[s])) => getActiveUploadsCount = 0

\* one call ended by the timeout and one by the watchdog, both out of the map
C4_Witness ==
  /\ getActiveUploadsCount = 0
  /\ \E s1, s2 \in Sessions :
       /\ up[s1].pc = "returned" /\ up[s1].caught = TimeoutError
       /\ up[s2].pc = "returned" /\ up[s2].caught = StalledError
       /\ up[s1].id # up[s2].id

\* C6: a call the timeout ended has returned success: false with the timeout
\* message, and its transfer is not running any more.
C6_TimeoutCancelsTransfer ==
  \A s \in Sessions :
    (up[s].pc = "returned" /\ up[s].caught = TimeoutError) =>
      /\ ~up[s].result.success
      /\ up[s].xfer # "running"

\* C9: a call made while navigator.onLine is false returns in the same step
\* with success: false and the Offline message, starts no transfer, and owns
\* no entry of the active-session map in any state.
C9_OfflineRejectedAtOnce ==
  \A s \in Sessions :
    up[s].calledOffline =>
      /\ up[s].pc = "returned"
      /\ up[s].result = [NoResult EXCEPT !.error = "No internet connection"]
      /\ up[s].onError /\ ~up[s].onComplete
      /\ up[s].xfer = "none" /\ up[s].url = "none" /\ ~up[s].stallTimer
      /\ s \notin Owners

\* an offline call has returned while another call, made online, is in
\* flight and registered
C9_Witness ==
  \E s, r \in Sessions :
    /\ up[s].calledOffline /\ up[s].pc = "returned"
    /\ up[r].pc = "racing" /\ r \in Owners

\* C10: a call whose controller was aborted by cancelUpload or
\* cancelAllUploads returns success: false, cancelled: true, no message,
\* and neither onError nor onComplete is called.
C10_CancelledNotAnError ==
  \A s \in Sessions :
    (up[s].aborted /\ up[s].pc = "returned") =>
      /\ up[s].result = CancelledResult
      /\ ~up[s].onError /\ ~up[s].onComplete

\* C5: a running transfer whose reported byte count has not increased since
\* it started is not left uncancelled by the watchdog for longer than the
\* stall threshold plus one sampling interval -- nor, the threshold being
\* doubled during the start-up period, for longer than that period.
C5_StalledWithinThreshold ==
  \A s \in Sessions :
    (up[s].xfer = "running" /\ up[s].stallTimer
       /\ ~up[s].cancelledByWatchdog /\ up[s].bytes = 0)
      => \/ now - up[s].uploadStartTime <= up[s].stallThreshold + SampleMs
         \/ now - up[s].uploadStartTime <= GraceMs

\* C11: a cancelUpload(id) step taken while no session is registered under
\* the id leaves the active-session map, its size and every call as they
\* were: the controller of no other upload is aborted.
C11_UnknownIdIsNoOp ==
  [][\A id \in UploadIds :
       (id \notin DOMAIN activeUploads /\ uploaderCancelUpload(id)) =>
         /\ activeUploads' = activeUploads
         /\ getActiveUploadsCount' = getActiveUploadsCount
         /\ up' = up]_vars

\* cancelUpload was called with an id nobody is registered under while a
\* call was registered, and that call is still in flight, registered and
\* not aborted
C11_Witness ==
  \E s \in spared :
    /\ InFlight(up[s]) /\ ~up[s].aborted /\ up[s].xfer = "running"
    /\ s \in Owners /\ getActiveUploadsCount = 1

\* C12: a retryUpload(taskId) step for a task that is not failed, or not in
\* the queue, changes nothing of the queue: status, progress and error of
\* every task stay, no processUpload is started and no uploadTask is made
\* or registered.
C12_RetryOfNonFailedIsNoOp ==
  [][\A t \in Tasks :
       (retryUpload(t) /\ ~(InQueue(t) /\ task[t].status = "failed")) =>
         UNCHANGED <<queue, task, qActiveUploads, proc, nextProc, posts,
                     removeTimers, lastSnapshot, transitions>>]_vars

\* retryUpload did nothing for a task that is uploading with its one running
\* transfer, while a further processUpload could still have been started
C12_Witness ==
  /\ nextProc < MaxProcs
  /\ \E t \in retryIgnored :
       /\ InQueue(t) /\ task[t].status = "uploading"
       /\ Cardinality(RunningTransfers(t)) = 1

\* C13: whenever a transfer of a task is in flight, and whenever a task
\* exists at all, the placeholder record of the task exists in the document
\* store: it is created before the first byte transfer starts.
C13_PlaceholderBeforeTransfer ==
  /\ \A p \in Procs :
       proc[p].xfer \in {"running", "stalled", "canceling"}
         => posts[proc[p].task].exists
  /\ \A t \in Tasks : task[t].status # "none" => posts[t].exists

\* a transfer has started and sent nothing yet; the placeholder of its task
\* is stored with the thumbnail and the flag, while the placeholder of a
\* second addUpload is still being created
C13_Witness ==
  \E p \in Procs : \E t2 \in Tasks :
    /\ proc[p].xfer = "running" /\ proc[p].bytes = 0
    /\ posts[proc[p].task] = [exists |-> TRUE, uploading |-> TRUE,
                              mediaUrl |-> "thumbnail"]
    /\ addPc[t2] = "creatingPost" /\ ~posts[t2].exists

\* C14: whenever a task is completed, its placeholder record holds the
\* final URL and has the uploading flag cleared, the task's mediaUrl is
\* non-empty and is the URL stored in the record, and its progress is 100.
C14_CompletedMeansPatched ==
  \A t \in Tasks :
    task[t].status = "completed" =>
      /\ posts[t].exists /\ ~posts[t].uploading
      /\ task[t].mediaUrl # "" /\ task[t].mediaUrl = DownloadURL(t)
      /\ posts[t].mediaUrl = task[t].mediaUrl
      /\ task[t].progress = 100

\* a task completed on its second attempt, still in the array and shown as
\* completed to the listeners
C14_Witness ==
  \E t \in Tasks :
    /\ task[t].status = "completed" /\ InQueue(t)
    /\ <<"failed", "pending", "retryUpload">> \in transitions
    /\ posts[t] = [exists |-> TRUE, uploading |-> FALSE, mediaUrl |-> "url"]
    /\ \E i \in 1..Len(lastSnapshot) :
         lastSnapshot[i] = [id |-> t, status |-> "completed", progress |-> 100]

\* C15: a failure of processing is not thrown to the caller (addUpload has
\* returned the task id, and an addUpload that rejected made no task); the
\* failed task carries an error message, the listeners were handed the
\* array after the change, and the placeholder record is as it was created:
\* it exists, with the thumbnail and the uploading flag set.
C15_FailureIsContained ==
  \A t \in Tasks :
    /\ addPc[t] = "rejected" => task[t].status = "none"
    /\ task[t].status = "failed" =>
         /\ addPc[t] = "returned"
         /\ task[t].error # ""
         /\ posts[t] = [exists |-> TRUE, uploading |-> TRUE,
                        mediaUrl |-> "thumbnail"]
         /\ lastSnapshot = Snapshot(queue, task)
         /\ InQueue(t) =>
              \E i \in 1..Len(lastSnapshot) :
                lastSnapshot[i].id = t /\ lastSnapshot[i].status = "failed"

\* one task failed in the byte transfer and another one in the patch of its
\* record, which was left as it was
C15_Witness ==
  \E t1, t2 \in Tasks :
    /\ task[t1].status = "failed" /\ task[t1].error = "storage/unknown"
    /\ task[t2].status = "failed" /\ task[t2].error = "updateDoc failed"
    /\ InQueue(t1) /\ InQueue(t2)
    /\ posts[t2].uploading /\ posts[t2].mediaUrl = "thumbnail"

\* C16: a task whose transfer has gone silent does not stay uploading: as
\* long as it is uploading with a stalled transfer, a timer or callback of
\* the queue is pending that ends the transfer and fails the task.
C16_StalledTaskFails ==
  \A p \in Procs :
    (proc[p].xfer = "stalled" /\ task[proc[p].task].status = "uploading")
      => ENABLED ProcessStep(p)

\* C17: once cancelUpload(taskId) has returned for a task, the task is not
\* in the array, no uploadTask is registered for it, and the array last
\* handed to the listeners does not contain it -- whatever its status was
\* and whatever callback of its transfer arrived since.
C17_CancelledTaskIsGone ==
  \A t \in Tasks :
    cancelledAt[t].exists =>
      /\ ~InQueue(t)
      /\ qActiveUploads[t] = NoProc
      /\ \A i \in 1..Len(lastSnapshot) : lastSnapshot[i].id # t

\* C18: the record of a cancelled task stays exactly as it was at the
\* moment of the cancel.
C18_NoWriteAfterCancel ==
  \A t \in Tasks : cancelledAt[t].exists => posts[t] = cancelledAt[t]

\* C19: every status change made so far was followed by a notifyListeners
\* call before the status of the task changed again, and the listeners hold
\* the full current array: what they were handed last is the array as it
\* is, with the status and progress of every task in it.
C19_EveryTransitionNotified ==
  /\ transitions \subseteq notified
  /\ lastSnapshot = Snapshot(queue, task)

\* C20: uploadFile never ends by throwing: a call is idle, in flight or has
\* returned a result, and a call that met one of the expected failures --
\* it caught an error (offline, not authenticated, a backend error, the
\* timeout, a stall) or its controller was aborted (cancellation) --
\* returned success: false with cancelled: true or an error message.
C20_FailuresBecomeResults ==
  \A s \in Sessions :
    /\ up[s].pc \in {"idle", "auth", "racing", "returned"}
    /\ (up[s].pc = "returned" /\ (up[s].caught # NoError \/ up[s].aborted)) =>
         /\ ~up[s].result.success /\ up[s].result.url = ""
         /\ up[s].result.cancelled \/ up[s].result.error # ""

\* the calls in flight whose controller was not aborted
ActiveCalls == {s \in Sessions : InFlight(up[s]) /\ ~up[s].aborted}

\* C23: the calls in flight and not cancelled are registered under ids that
\* differ from one another, also when they were made for the same path at
\* the same clock reading; each of them owns its entry of the map, so the
\* count is their number, and the return or the cancel of one call leaves
\* the entries of the others.
C23_FreshUploadIds ==
  /\ \A s, r \in ActiveCalls : s # r => up[s].id # up[r].id
  /\ ActiveCalls \subseteq Owners
  /\ getActiveUploadsCount = Cardinality(ActiveCalls)

\* C24: the message is that of the first class the error matches in the
\* order not-online, permission-denied (unauthenticated, unauthorized),
\* quota-exceeded, stalled, generic-network, generic-timeout, fallback --
\* for the errors whose code, if they have one, is of these classes.
C24_ClassifiedInStatedOrder ==
  (cls.done /\ cls.error.code \in {"", "storage/unauthenticated",
                                    "storage/unauthorized",
                                    "storage/quota-exceeded",
                                    "storage/object-not-found"})
    => LET e == cls.error
           first ==
             IF ~cls.online THEN "not-online"
             ELSE IF e.code \in {"storage/unauthenticated",
                                 "storage/unauthorized"}
               THEN "permission-denied"
             ELSE IF e.code = "storage/quota-exceeded" THEN "quota-exceeded"
             ELSE IF "stalled" \in e.words THEN "stalled"
             ELSE IF "network" \in e.words \/ "fetch" \in e.words
               THEN "generic-network"
             ELSE IF "timeout" \in e.words THEN "generic-timeout"
             ELSE "fallback"
       IN MessageClass(cls.out) = first

\* C25: once uploadFile has returned, the interval of its watchdog is
\* cleared: the callback of the stallTimer never runs for a call that has
\* returned, and so never cancels a transfer for it.
C25_NoTickAfterReturn ==
  [][\A s \in Sessions : up[s].pc = "returned" => ~stallTimerTick(s)]_vars

\* C26: while the watchdog is sampling, lastTick is set anew only by a step
\* at which the transferred-byte count is above the count of the previous
\* sample: a report that repeats the count leaves lastTick as it was.
C26_LastTickOnlyOnGrowth ==
  [][\A s \in Sessions :
       (up[s].stallTimer /\ up'[s].stallTimer
          /\ up'[s].lastTick # up[s].lastTick)
         => up'[s].bytes > up[s].lastBytes]_vars

\* C27: at most one notifyListeners call of the queue is in progress at any
\* time: a delivery has called every listener and returned before the next
\* one begins, also when a listener calls retryUpload or cancelUpload.
C27_DeliveriesDoNotOverlap == Len(stack) <= 1

\* C28: a task leaves the array only in a cancelUpload step for it or when
\* the timer set at its completion fires, the task being completed; and a
\* failed task of the array is still in it, and failed, after every step
\* that is not a retryUpload or a cancelUpload for it.
C28_RemovalOnlyByCancelOrGrace ==
  [][\A t \in Tasks :
       /\ (InQueue(t) /\ ~InQueue(t)') =>
            \/ cancelUpload(t)
            \/ removeTimerFires(t) /\ task[t].status = "completed"
       /\ (InQueue(t) /\ task[t].status = "failed") =>
            \/ InQueue(t)' /\ task'[t].status = "failed"
            \/ retryUpload(t)
            \/ cancelUpload(t)]_vars

\* a task is failed and in the array after the other task completed and
\* was taken out by its timer
C28_Witness ==
  \E t, u \in Tasks :
    /\ InQueue(t) /\ task[t].status = "failed"
    /\ task[u].status = "completed" /\ ~InQueue(u)
    /\ ~cancelledAt[u].exists /\ u \notin removeTimers

\* C29: a call whose controller was aborted while the import of the auth
\* module was pending starts no transfer: at every step it either waits on,
\* or returns success: false, cancelled: true with neither onError nor
\* onComplete called, and no upload task, watchdog or URL request is made
\* for it.
C29_CancelledBeforeStart ==
  [][\A s \in Sessions :
       (up[s].pc = "auth" /\ up[s].aborted) =>
         /\ up'[s].xfer = "none" /\ up'[s].url = "none"
         /\ ~up'[s].stallTimer /\ ~up'[s].onAbort
         /\ \/ up'[s] = up[s]
            \/ /\ up'[s].pc = "returned"
               /\ up'[s].result = CancelledResult
               /\ ~up'[s].onError /\ ~up'[s].onComplete]_vars

\* a call was cancelled by id before its transfer started and returned
\* cancelled from the check of performUpload, while the other call, made
\* later, has its transfer running
C29_Witness ==
  \E s, r \in Sessions :
    /\ up[s].pc = "returned" /\ up[s].aborted
    /\ up[s].caught = CancelledError /\ up[s].xfer = "none"
    /\ up[s].result = CancelledResult
    /\ up[r].pc = "racing" /\ up[r].xfer = "running" /\ ~up[r].aborted
    /\ up[r].id # up[s].id

\* C30: at every reachable state of the queue a task has an error message
\* if and only if its status is failed; a task that does not exist yet has
\* none either.
C30_ErrorIffFailed ==
  \A t \in Tasks : (task[t].error # "") <=> (task[t].status = "failed")

\* a task that failed with a message and was retried is uploading again,
\* its message cleared and its second transfer registered and running
C30_Witness ==
  \E t \in Tasks : \E p1, p2 \in Procs :
    /\ task[t].status = "uploading" /\ task[t].error = ""
    /\ <<"failed", "pending", "retryUpload">> \in transitions
    /\ proc[p1].task = t /\ proc[p1].xfer = "error"
    /\ qActiveUploads[t] = p2 /\ proc[p2].xfer = "running"
====
